---- MODULE Spec2Model ----
(***************************************************************************)
(* Model of the A2A file-processing agent of Backend/agent_core:           *)
(*   app_agent.py   - tasks/send, tasks/sendSubscribe, tasks/cancel, the   *)
(*                    background thread (_run_async_task_in_thread,        *)
(*                    run_main_agent_for_a2a) and the stream generator;    *)
(*   main_agent.py  - MainAgent.run, the generate/execute/retry loop;      *)
(*   feedback_control_module.py, code_execution_module.py,                 *)
(*   output_delivery_module.py, logging_module.py - what MainAgent calls.  *)
(*                                                                         *)
(* A task's status is a dict that task['status'] and the queued events     *)
(* share by reference, so statuses live in a per-task heap and the task    *)
(* and the events hold indices into it.                                    *)
(***************************************************************************)
EXTENDS Integers, Sequences, FiniteSets, TLC

\* ---------------------------------------------------------------- bounds
\* Largest value of agent_max_retries the model explores.
MaxRetriesBound == 2
\* Largest number of tasks/cancel requests handled per task.
MaxCancels == 2
\* Largest value of agent_max_retries explored with two concurrent tasks.
MaxRetriesTwoTasks == 0
\* Largest number of keep-alive comments followed per stream.
MaxKeepAlives == 1

\* The ids the clients use; each submit carries its own instruction text and
\* its own file list, named after the id.
TaskIds == {"t1", "t2"}

NoTask == "none"

\* The clients whose send requests are handled at the same time.
Clients == {"c1", "c2"}

\* ------------------------------------------------------- program constants
\* The methods LoggingModule defines (logging_module.py:34-44).
LoggingModuleMethods == {"info", "error", "debug", "warning"}

\* The parameters execute_code accepts (code_execution_module.py:71).
ExecuteCodeParams == {"code_string", "required_packages", "python_version"}

\* The keyword arguments MainAgent.run passes to execute_code
\* (main_agent.py:193-197).
ExecuteCodeCallKwargs == {"required_packages", "output_dir"}

\* The attributes CodeExecutionModule.__init__ sets (code_execution_module.py:13-27).
CodeExecutionModuleAttrs == {"logger", "timeout_seconds", "stdout_error_patterns"}

\* The states tasks/cancel treats as final (app_agent.py:786).
CancelFinalStates == {"completed", "failed", "canceled", "unknown"}

\* The states the specification calls terminal.
TerminalStates == {"completed", "failed", "canceled"}

VARIABLES
    max_retries,        \* AGENT_CONFIG["agent_max_retries"]
    task_store,         \* task id -> [present, status (heap index), artifacts]
    heap,               \* task id -> sequence of status dicts [state, timestamp, message]
    stream_queues,      \* task id -> TRUE when the id is a key of stream_queues
    queue,              \* task id -> the queue.Queue of the task (a sequence of events)
    sink,               \* task id -> TRUE when the thread was given the queue
    pc,                 \* task id -> position of the background thread
    agent,              \* task id -> locals of MainAgent.run, and what its attempts were
    instructions_file,  \* whose text instructions.txt holds
    config_input_files, \* whose file list configuration.ini holds
    clock,              \* task id -> number of get_iso_timestamp() calls made for it
    stream,             \* task id -> state of event_generator
    delivered,          \* task id -> the events yielded to the client, in order
    cancel_calls,       \* task id -> tasks/cancel requests handled
    cancel_marked,      \* task id -> TRUE once a tasks/cancel marked the task canceled
    call_in,            \* the arguments of a direct call of a module's method, if any
    call_out,           \* what that call returned, once it has returned
    response,           \* task id -> the last send request with this id and its answer
    temp_env,           \* the paths execute_code created that exist under temp_env
    venv_dir,           \* task id -> the environment directory of its execute_code call
    children,           \* the child processes of execute_code calls still running
    keep_alives,        \* task id -> keep-alive comments yielded to the client
    handler,            \* client -> where its send request is in the handler, and the request
    threads_started     \* task id -> background threads started for the id

vars == <<max_retries, task_store, heap, stream_queues, queue, sink, pc, agent,
          instructions_file, config_input_files, clock, stream, delivered,
          cancel_calls, cancel_marked, call_in, call_out, response, temp_env,
          venv_dir, children, keep_alives, handler, threads_started>>

\* ---------------------------------------------------------------- helpers
\* Python: calling a function with a keyword it does not declare raises TypeError.
CallRaisesTypeError(kwargs, params) == ~(kwargs \subseteq params)

\* Python: reading an attribute an object does not have raises AttributeError.
RaisesAttributeError(name, attrs) == name \notin attrs

StatusDict(state, ts, msg) == [state |-> state, timestamp |-> ts, message |-> msg]

\* The status dict task['status'] refers to.
TaskStatus(t) == heap[t][task_store[t].status]

State(t) == IF task_store[t].present THEN TaskStatus(t).state ELSE "absent"

\* The events put on a task's queue.  status = 0: the event carries no status.
StatusEvent(ref, final) ==
    [event_type |-> "task_status_update", status |-> ref, final |-> final, progress |-> 0]

ProgressEvent(p) ==
    [event_type |-> "task_progress_update", status |-> 0, final |-> FALSE, progress |-> p]

ArtifactEvent ==
    [event_type |-> "task_artifact_update", status |-> 0, final |-> FALSE, progress |-> 0]

FinalStatusUpdate(ref) ==
    [event_type |-> "task_status_update", status |-> ref, final |-> TRUE, progress |-> 100]

\* The None the thread puts to end the stream.
EndOfStream ==
    [event_type |-> "None", status |-> 0, final |-> FALSE, progress |-> 0]

\* A put that places the event at the head of the queue.
PutFirst(q, hasSink, e) == IF hasSink THEN <<e>> \o q ELSE q

\* event_sink_q.put(e) when the thread was given a queue ("if event_sink_q:").
Put(q, hasSink, e) == IF hasSink THEN Append(q, e) ELSE q

AgentInit ==
    [current_retry_attempt |-> 0, gen_calls |-> 0, exec_calls |-> 0,
     retry_calls |-> 0, program |-> "none", attempts |-> << >>, raised |-> FALSE,
     prompt |-> << >>, sent |-> << >>,
     instr |-> NoTask, files |-> NoTask, result |-> "none", message |-> "none"]

\* The service before any request: nothing stored, no thread running.
ServiceInit ==
    /\ max_retries \in 0..MaxRetriesBound
    /\ task_store = [t \in TaskIds |-> [present |-> FALSE, status |-> 0, artifacts |-> 0]]
    /\ heap = [t \in TaskIds |-> << >>]
    /\ stream_queues = [t \in TaskIds |-> FALSE]
    /\ queue = [t \in TaskIds |-> << >>]
    /\ sink = [t \in TaskIds |-> FALSE]
    /\ pc = [t \in TaskIds |-> "idle"]
    /\ agent = [t \in TaskIds |-> AgentInit]
    /\ instructions_file = NoTask
    /\ config_input_files = NoTask
    /\ clock = [t \in TaskIds |-> 0]
    /\ stream = [t \in TaskIds |-> "none"]
    /\ delivered = [t \in TaskIds |-> << >>]
    /\ cancel_calls = [t \in TaskIds |-> 0]
    /\ cancel_marked = [t \in TaskIds |-> FALSE]
    /\ response = [t \in TaskIds |-> [code |-> "none", text |-> FALSE, files |-> FALSE]]
    /\ temp_env = {}
    /\ venv_dir = [t \in TaskIds |-> "None"]
    /\ children = {}
    /\ keep_alives = [t \in TaskIds |-> 0]
    /\ handler = [c \in Clients |->
                     [at |-> "idle", streaming |-> FALSE, text |-> FALSE, files |-> FALSE]]
    /\ threads_started = [t \in TaskIds |-> 0]

Init ==
    /\ ServiceInit
    /\ call_in = {}
    /\ call_out = {}

\* --------------------------------------------------------------- handlers
\* The send requests of the model: with or without a text part, with or
\* without file parts that could be downloaded.
Requests == [text : BOOLEAN, files : BOOLEAN]

\* What a request was answered: "400", the task's status at serialization
\* ("pending" until then), or "stream" for the event stream.
Response(request, code) == [code |-> code, text |-> request.text, files |-> request.files]

\* A check that lets every request through.
RequestNeverEmpty(request) == FALSE

\* app_agent.py:533 and 584: "not instruction_text and not file_paths_for_agent".
RequestIsEmpty(request) == ~request.text /\ ~request.files

\* tasks/send (streaming = FALSE) and tasks/sendSubscribe (streaming = TRUE)
\* with a new id (409 otherwise).  The handler writes the request's file list
\* to configuration.ini ('none' for no files); an empty request is then
\* answered 400; otherwise the task is stored in state submitted and the
\* thread is started.  tasks/sendSubscribe answers with the stream, tasks/send
\* still has to build its response.
SubmitNewId(t, streaming, request) ==
    /\ request \in Requests
    /\ config_input_files' = IF request.files THEN t ELSE NoTask
    /\ IF RequestIsEmpty(request)
       THEN /\ response' = [response EXCEPT ![t] = Response(request, "400")]
            /\ UNCHANGED <<clock, heap, task_store, stream_queues, sink, stream, pc,
                           threads_started>>
       ELSE /\ clock' = [clock EXCEPT ![t] = @ + 1]
            /\ threads_started' = [threads_started EXCEPT ![t] = @ + 1]
            /\ heap' = [heap EXCEPT ![t] = <<StatusDict("submitted", clock[t] + 1, "request")>>]
            /\ task_store' = [task_store EXCEPT
                                 ![t] = [present |-> TRUE, status |-> 1, artifacts |-> 0]]
            /\ stream_queues' = [stream_queues EXCEPT ![t] = streaming]
            /\ sink' = [sink EXCEPT ![t] = streaming]
            /\ stream' = [stream EXCEPT ![t] = IF streaming THEN "open" ELSE "none"]
            /\ pc' = [pc EXCEPT ![t] = "a2a_start"]
            /\ response' = [response EXCEPT
                                ![t] = Response(request, IF streaming THEN "stream"
                                                                      ELSE "pending")]
    /\ UNCHANGED <<temp_env, call_in, call_out, max_retries, keep_alives, venv_dir,
                   children, queue, agent, instructions_file, delivered, cancel_calls,
                   cancel_marked>>

\* A send request handled with no other request for the same id in the
\* handler: the id check (app_agent.py:506-508, 557-559) and the rest of the
\* handler follow one another.
Submit(t, streaming, request) ==
    /\ ~task_store[t].present
    /\ SubmitNewId(t, streaming, request)
    /\ UNCHANGED handler

\* app_agent.py:546: "return jsonify(task)", after thread.start(): the
\* response carries the status the task has when it is serialized.
Send_Return(t) ==
    /\ response[t].code = "pending"
    /\ response' = [response EXCEPT ![t].code = State(t)]
    /\ UNCHANGED <<temp_env, call_in, call_out, max_retries, handler, threads_started, keep_alives, venv_dir, children, task_store, heap,
                   stream_queues, queue, sink, pc, agent, instructions_file,
                   config_input_files, clock, stream, delivered, cancel_calls,
                   cancel_marked>>


\* ------------------------------------------------- MainAgent.run's callees
\* Python's None where a text is expected.
PyNone == <<"<None>">>

\* "\n".join(strings): a string is a sequence of lines, the strings follow
\* one another.
RECURSIVE join(_)
join(strings) == IF strings = << >> THEN << >> ELSE Head(strings) \o join(Tail(strings))

\* A retry limit that allows one attempt more.
RetryLimitExceeded(current_retry_attempt, maxRetries) == current_retry_attempt > maxRetries

\* feedback_control_module.py:28: the retry limit is reached.
RetryLimitReached(current_retry_attempt, maxRetries) == current_retry_attempt >= maxRetries

\* prepare_for_retry of FeedbackControlModule: no retry once the attempt index
\* reached max_retries; otherwise the prompt it was given, followed by a
\* feedback section that holds the feedback strings, and the next attempt
\* index.
prepare_for_retry(original_prompt, validation_feedback, current_retry_attempt, maxRetries) ==
    IF RetryLimitReached(current_retry_attempt, maxRetries)
    THEN [should_retry |-> FALSE, refined_prompt |-> PyNone,
          next_retry_attempt |-> current_retry_attempt]
    ELSE [should_retry |-> TRUE,
          refined_prompt |->
              original_prompt
              \o <<"", "--- Previous Attempt Feedback ---",
                   "The previous attempt ... failed with the following issues:">>
              \o join(validation_feedback)
              \o <<"Please analyze this feedback and provide a corrected version of the code.",
                   "--- End of Feedback ---">>,
          next_retry_attempt |-> current_retry_attempt + 1]

\* What the model provider answers to one generate_content call: code that
\* parses, code that does not parse, a text no code can be extracted from,
\* or no candidates and a block reason in the prompt feedback.
GenOutcomes == {"ok", "syntax_invalid", "extraction_failed", "blocked"}

\* A generate_code that returns extracted code without checking its syntax.
generate_code_unchecked(outcome) ==
    CASE outcome = "blocked" ->
           [code |-> PyNone, syntax_valid |-> FALSE, error |-> <<"Prompt blocked due to">>]
      [] outcome = "extraction_failed" ->
           [code |-> PyNone, syntax_valid |-> FALSE,
            error |-> <<"Code extraction failed from Vertex AI response.">>]
      [] OTHER ->
           [code |-> <<"code">>, syntax_valid |-> TRUE, error |-> PyNone]

\* CodeGenerationModule.generate_code on the provider's answer
\* (code_generation_module.py:166-310): an error message and no code, or the
\* code with the result of the syntax check.
generate_code(outcome) ==
    CASE outcome = "blocked" ->
           [code |-> PyNone, syntax_valid |-> FALSE,
            error |-> <<"Vertex AI response was empty or contained no candidates.",
                        "Prompt blocked due to">>]
      [] outcome = "extraction_failed" ->
           [code |-> PyNone, syntax_valid |-> FALSE,
            error |-> <<"Code extraction failed from Vertex AI response.">>]
      [] outcome = "syntax_invalid" ->
           [code |-> <<"code">>, syntax_valid |-> FALSE, error |-> PyNone]
      [] OTHER ->
           [code |-> <<"code">>, syntax_valid |-> TRUE, error |-> PyNone]

\* main_agent.py:159 and 167: the attempt stops before execution.
GenerationFailed(codegen_result) ==
    codegen_result.error # PyNone \/ ~codegen_result.syntax_valid

\* main_agent.py:158-161: the feedback of a failed generation.  The result
\* always has the key "error", so its value is used, None included.
GenerationFeedback(codegen_result) ==
    << <<"Code generation/syntax error:">> \o codegen_result.error >>

\* A text is a sequence of words; "ws" is a run of whitespace with nothing
\* else around it.  str.strip removes whitespace at both ends.
RECURSIVE lstrip(_)
lstrip(text) == IF text # << >> /\ Head(text) = "ws" THEN lstrip(Tail(text)) ELSE text

RECURSIVE rstrip(_)
rstrip(text) ==
    IF text # << >> /\ text[Len(text)] = "ws"
    THEN rstrip(SubSeq(text, 1, Len(text) - 1))
    ELSE text

strip(text) == rstrip(lstrip(text))

\* re.IGNORECASE on the words of the model.
Lower(word) ==
    CASE word = "Error:" -> "error:"
      [] word = "Traceback" -> "traceback"
      [] word = "Failed" -> "failed"
      [] word = "Could" -> "could"
      [] OTHER -> word

\* pattern.search(text): the pattern's words occur in the text, in a row.
search(pattern, text) ==
    \E i \in 1..(Len(text) - Len(pattern) + 1) :
        \A j \in 1..Len(pattern) : Lower(text[i + j - 1]) = pattern[j]

\* self.stdout_error_patterns (code_execution_module.py:17-27).
stdout_error_patterns ==
    { <<"error:">>, <<"exception:">>,
      <<"traceback", "(most", "recent", "call", "last):">>,
      <<"failed", "to">>, <<"can't", "find">>, <<"could", "not", "process">>,
      <<"invalid", "file">>, <<"unexpected", "error", "occurred">>,
      <<"no", "module", "named">> }

\* code_execution_module.py:163-169: some pattern is found in stdout.
StdoutMatchesErrorPattern(out) == \E pattern \in stdout_error_patterns : search(pattern, out)

\* A stderr check that lets a stderr starting with a warning pass.
StderrMeansFailureUnlessWarning(actual_stderr) ==
    actual_stderr # << >> /\ actual_stderr[1] # "DeprecationWarning:"

\* code_execution_module.py:159: "if actual_stderr:".
StderrMeansFailure(actual_stderr) == actual_stderr # << >>

\* A classification that looks at the exit code alone.
ClassifyByExitCode(exit_code, actual_stdout, actual_stderr) ==
    IF exit_code = 0
    THEN [success |-> TRUE, error |-> PyNone]
    ELSE [success |-> FALSE, error |-> actual_stderr]

\* code_execution_module.py:155-186: success and the error message from the
\* exit code and the stripped outputs.  (The texts of the model are shorter
\* than the 200 characters of stdout the messages keep.)
Classify(exit_code, actual_stdout, actual_stderr) ==
    IF exit_code = 0
    THEN IF StderrMeansFailure(actual_stderr)
         THEN [success |-> FALSE, error |-> actual_stderr]
         ELSE IF StdoutMatchesErrorPattern(actual_stdout)
              THEN [success |-> FALSE,
                    error |-> <<"Error pattern found in stdout:">> \o actual_stdout]
              ELSE [success |-> TRUE, error |-> PyNone]
    ELSE [success |-> FALSE,
          error |-> IF actual_stderr # << >>
                    THEN actual_stderr
                    ELSE <<"Execution failed with exit code">>
                         \o (IF actual_stdout # << >>
                             THEN <<"Stdout was:">> \o actual_stdout
                             ELSE << >>)]

\* CodeExecutionModule.execute_code (code_execution_module.py:71-204) on one
\* run: the code it is given and what happens when it is run (whether
\* creating the environment raises, whether the packages install, whether the
\* program outlives the timeout, its exit code and its outputs).
execute_code(run) ==
    IF strip(run.code_string) = << >>
    THEN [stdout |-> << >>, stderr |-> <<"Error:", "No code provided.">>, exit_code |-> -1,
          success |-> FALSE, error |-> <<"No code provided">>]
    ELSE IF run.raises
    THEN [stdout |-> << >>, stderr |-> <<"Error:", "An unexpected error occurred:", "e">>,
          exit_code |-> -1, success |-> FALSE, error |-> <<"e">>]
    ELSE IF ~run.install_ok
    THEN [stdout |-> << >>, stderr |-> <<"Error:", "Failed to install required packages.">>,
          exit_code |-> -1, success |-> FALSE,
          error |-> <<"Failed to install required packages">>]
    ELSE IF run.overtime
    THEN [stdout |-> << >>,
          stderr |-> <<"Error:", "Execution", "timed out", "after", "timeout_seconds", "seconds.">>,
          exit_code |-> -1, success |-> FALSE,
          error |-> <<"Execution", "timed out", "after", "timeout_seconds", "seconds.">>]
    ELSE LET actual_stdout == strip(run.stdout)
             actual_stderr == strip(run.stderr)
             c == Classify(run.exit_code, actual_stdout, actual_stderr)
         IN [stdout |-> actual_stdout, stderr |-> actual_stderr,
             exit_code |-> run.exit_code, success |-> c.success, error |-> c.error]

\* A timeout handler that leaves the child alone.
leave_running(process) == process

\* process.kill() and process.communicate() on a child that is still
\* running (code_execution_module.py:189-191).
kill(process) == "killed"

\* The child process of a call when the call returns: None when the call
\* returned before Popen (lines 77-113), killed after a TimeoutExpired of
\* communicate (145, 187-191), exited otherwise.
process_at_return(run) ==
    IF strip(run.code_string) = << >> \/ run.raises \/ ~run.install_ok
    THEN "None"
    ELSE IF run.overtime THEN kill("running") ELSE "exited"

\* The children a call on behalf of caller leaves running.
children_left(caller, run) == IF process_at_return(run) = "running" THEN {caller} ELSE {}

\* The finally block of execute_code (code_execution_module.py:205-221) on
\* what the call created: the environment directory once there is code to
\* run (line 96) and the program file once the packages installed (line 117).
\* os.remove and shutil.rmtree may raise; the exception is logged and what was
\* to be deleted stays.  The result is what exists after the call.
finally_cleanup(run) ==
    IF strip(run.code_string) = << >>
    THEN {}
    ELSE LET created == {"venv_dir"} \cup (IF ~run.raises /\ run.install_ok
                                           THEN {"temp_file"} ELSE {})
             removed == IF run.remove_ok THEN created \ {"temp_file"} ELSE created
         IN IF run.rmtree_ok THEN {} ELSE removed

\* A run of generated code: the code is there, the environment is created
\* and the deletions succeed.
ProgramRun(name, install_ok, exit_code, stdout, stderr, overtime) ==
    [name |-> name, code_string |-> <<"code">>, raises |-> FALSE, install_ok |-> install_ok,
     overtime |-> overtime, exit_code |-> exit_code, stdout |-> stdout, stderr |-> stderr,
     remove_ok |-> TRUE, rmtree_ok |-> TRUE]

\* What a generated program does when it is run: its exit code, what it
\* writes, and whether it runs longer than the timeout.
Programs ==
    { ProgramRun("clean", TRUE, 0, <<"8", "ws">>, << >>, FALSE),
      ProgramRun("stdout_error", TRUE, 0, <<"Error:", "no", "sheet">>, << >>, FALSE),
      ProgramRun("transient", TRUE, 1, << >>, <<"AssertionError:", "ws">>, FALSE),
      ProgramRun("critical", TRUE, 1, << >>, <<"FileNotFoundError:", "in.xlsx">>, FALSE),
      ProgramRun("timeout", TRUE, 0, << >>, << >>, TRUE),
      ProgramRun("install_fails", FALSE, 0, << >>, << >>, FALSE) }

ProgramNames == {p.name : p \in Programs}

ProgramNamed(n) == CHOOSE p \in Programs : p.name = n

\* main_agent.py:202-206: the feedback of a failed execution.
ExecutionFeedback(execution_result) ==
    << <<"Code execution failed:">> \o execution_result.error >>
    \o (IF execution_result.stdout # << >>
        THEN << <<"STDOUT:">> \o execution_result.stdout >> ELSE << >>)
    \o (IF execution_result.stderr # << >>
        THEN << <<"STDERR:">> \o execution_result.stderr >> ELSE << >>)

\* The except clause of MainAgent.run (main_agent.py:283-292), entered with
\* final_agent_result as the try block left it ("none": still {}).  Its first
\* statement calls self.logger.critical; when LoggingModule has no such method
\* the clause raises before it assigns final_agent_result, and the finally
\* block's return discards that exception.
ExceptClause(far) ==
    IF RaisesAttributeError("critical", LoggingModuleMethods)
    THEN far
    ELSE [status |-> "CRITICAL_FAILURE_UNHANDLED_EXCEPTION", message |-> "exception detail"]

\* The finally block of MainAgent.run (main_agent.py:293-312): a result
\* without a status becomes UNKNOWN_FINAL_STATE.
FinallyBlock(far) ==
    IF far.status = "none"
    THEN [status |-> "UNKNOWN_FINAL_STATE", message |-> "Agent finished in an unknown state."]
    ELSE far

NoResult == [status |-> "none", message |-> "none"]

\* What MainAgent.run returns when its try block raises with
\* final_agent_result = far.
RunRaises(far) == FinallyBlock(ExceptClause(far))

\* status_map of run_main_agent_for_a2a (app_agent.py:271-279).
status_map(result_status) ==
    CASE result_status = "SUCCESS" -> "completed"
      [] result_status = "FAILURE_NO_INPUT" -> "failed"
      [] result_status = "FAILURE_INSTRUCTION_PROCESSING" -> "failed"
      [] result_status = "FAILURE_CODE_GENERATION" -> "failed"
      [] result_status = "FAILURE_MAX_RETRIES" -> "failed"
      [] result_status = "CRITICAL_FAILURE_UNHANDLED_EXCEPTION" -> "failed"
      [] OTHER -> "unknown"

\* The part of one loop iteration of MainAgent.run from the execute_code call
\* on (main_agent.py:191-276), for the generated program p, the prompt of the
\* attempt and the attempt index k: the result the run ends with, or "retry"
\* with the next prompt and attempt index.
ExecuteStep(p, current_prompt, k, maxRetries) ==
    IF CallRaisesTypeError(ExecuteCodeCallKwargs, ExecuteCodeParams)
    THEN [kind |-> "end", far |-> RunRaises(NoResult), attempt |-> k, retry_asked |-> FALSE,
          raised |-> TRUE, prompt |-> current_prompt]
    ELSE LET r == execute_code(p)
             error_output == IF r.stderr # << >> THEN r.stderr ELSE r.stdout
             d == prepare_for_retry(current_prompt, ExecutionFeedback(r), k, maxRetries)
         IN IF r.success
            THEN [kind |-> "end", far |-> [status |-> "SUCCESS", message |-> "completed"],
                  attempt |-> k, retry_asked |-> FALSE, raised |-> FALSE,
                  prompt |-> current_prompt]
            ELSE IF r.exit_code = 1 /\ error_output # << >>
                    /\ RaisesAttributeError("critical_error_patterns", CodeExecutionModuleAttrs)
                 THEN [kind |-> "end", far |-> RunRaises(NoResult), attempt |-> k,
                       retry_asked |-> FALSE, raised |-> TRUE, prompt |-> current_prompt]
                 ELSE IF d.should_retry
                      THEN [kind |-> "retry", far |-> NoResult,
                            attempt |-> d.next_retry_attempt, retry_asked |-> TRUE,
                            raised |-> FALSE, prompt |-> d.refined_prompt]
                      ELSE [kind |-> "end",
                            far |-> FinallyBlock([status |-> "FAILURE_EXECUTION",
                                                  message |-> "execution failed"]),
                            attempt |-> k, retry_asked |-> TRUE, raised |-> FALSE,
                            prompt |-> current_prompt]


\* ------------------------------------------------------ background thread
\* task['status'] = <a new dict>: the dict is appended to the task's heap and
\* the task refers to it.
NewStatus(t, state, msg) ==
    /\ clock' = [clock EXCEPT ![t] = @ + 1]
    /\ heap' = [heap EXCEPT ![t] = Append(@, StatusDict(state, clock[t] + 1, msg))]
    /\ task_store' = [task_store EXCEPT ![t].status = Len(heap[t]) + 1]

\* task['status']['state'] = ...: the dict the task refers to is changed in
\* place, and with it every queued event that carries it.
MutateStatus(t, state, msg) ==
    /\ clock' = [clock EXCEPT ![t] = @ + 1]
    /\ heap' = [heap EXCEPT ![t][task_store[t].status] = StatusDict(state, clock[t] + 1, msg)]

\* run_main_agent_for_a2a up to the construction of MainAgent
\* (app_agent.py:180-238).  The service account file is missing or unreadable:
\* the task is set to failed and the function returns after putting the final
\* event.  Otherwise progress 20 is put and MainAgent is constructed; an
\* exception of the constructor leaves the coroutine.
A2A_Start(t, outcome) ==
    /\ pc[t] = "a2a_start"
    /\ outcome \in {"ok", "bad_config", "ctor_raises"}
    /\ CASE outcome = "bad_config" ->
              /\ NewStatus(t, "failed", "config")
              /\ pc' = [pc EXCEPT ![t] = "a2a_fail_put"]
              /\ UNCHANGED queue
         [] outcome = "ctor_raises" ->
              /\ queue' = [queue EXCEPT ![t] = Put(@, sink[t], ProgressEvent(20))]
              /\ pc' = [pc EXCEPT ![t] = "thread_except"]
              /\ UNCHANGED <<clock, heap, task_store>>
         [] outcome = "ok" ->
              /\ queue' = [queue EXCEPT ![t] = Put(@, sink[t], ProgressEvent(20))]
              /\ pc' = [pc EXCEPT ![t] = "a2a_submitted"]
              /\ UNCHANGED <<clock, heap, task_store>>
    /\ UNCHANGED <<response, temp_env, call_in, call_out, max_retries, handler, threads_started, keep_alives, venv_dir, children,
                   stream_queues, sink, agent, instructions_file,
                   config_input_files, stream, delivered, cancel_calls, cancel_marked>>

\* The put of the final failed event that follows an early failure
\* (app_agent.py:203, 215, 223, 252); the function then returns.
A2A_FailPut(t) ==
    /\ pc[t] = "a2a_fail_put"
    /\ queue' = [queue EXCEPT ![t] = Put(@, sink[t], StatusEvent(task_store[t].status, TRUE))]
    /\ pc' = [pc EXCEPT ![t] = "thread_finally"]
    /\ UNCHANGED <<response, temp_env, call_in, call_out, max_retries, handler, threads_started, keep_alives, venv_dir, children,
                   task_store, heap, stream_queues, sink, agent,
                   instructions_file, config_input_files, clock, stream, delivered,
                   cancel_calls, cancel_marked>>

\* app_agent.py:240-241: the task's status is set to a new submitted status.
A2A_SetSubmitted(t) ==
    /\ pc[t] = "a2a_submitted"
    /\ NewStatus(t, "submitted", "init")
    /\ pc' = [pc EXCEPT ![t] = "a2a_submitted_put"]
    /\ UNCHANGED <<response, temp_env, call_in, call_out, max_retries, handler, threads_started, keep_alives, venv_dir, children,
                   stream_queues, queue, sink, agent, instructions_file,
                   config_input_files, stream, delivered, cancel_calls, cancel_marked>>

\* app_agent.py:242: the status event of the submitted status.
A2A_PutSubmitted(t) ==
    /\ pc[t] = "a2a_submitted_put"
    /\ queue' = [queue EXCEPT ![t] = Put(@, sink[t], StatusEvent(task_store[t].status, FALSE))]
    /\ pc' = [pc EXCEPT ![t] = "a2a_write_instr"]
    /\ UNCHANGED <<response, temp_env, call_in, call_out, max_retries, handler, threads_started, keep_alives, venv_dir, children,
                   task_store, heap, stream_queues, sink, agent,
                   instructions_file, config_input_files, clock, stream, delivered,
                   cancel_calls, cancel_marked>>

\* app_agent.py:244-256: the task's instruction text is written to
\* instructions.txt, then progress 40 is put; a failed write sets the task to
\* failed.
A2A_WriteInstructions(t, ok) ==
    /\ pc[t] = "a2a_write_instr"
    /\ IF ok
       THEN /\ instructions_file' = t
            /\ queue' = [queue EXCEPT ![t] = Put(@, sink[t], ProgressEvent(40))]
            /\ pc' = [pc EXCEPT ![t] = "run_start"]
            /\ UNCHANGED <<clock, heap, task_store>>
       ELSE /\ NewStatus(t, "failed", "instructions")
            /\ pc' = [pc EXCEPT ![t] = "a2a_fail_put"]
            /\ UNCHANGED <<instructions_file, queue>>
    /\ UNCHANGED <<response, temp_env, call_in, call_out, max_retries, handler, threads_started, keep_alives, venv_dir, children,
                   stream_queues, sink, agent, config_input_files,
                   stream, delivered, cancel_calls, cancel_marked>>


\* MainAgent.run before its loop (main_agent.py:68-147): the run reads the
\* file list from configuration.ini and the instructions from
\* instructions.txt, whoever wrote them last, and builds the first prompt
\* from them and the output directory.
Run_Start(t) ==
    /\ pc[t] = "run_start"
    /\ agent' = [agent EXCEPT ![t].instr = instructions_file,
                              ![t].files = config_input_files,
                              ![t].prompt = <<instructions_file, config_input_files,
                                              "IMPORTANT: All output files MUST be saved to">>]
    /\ pc' = [pc EXCEPT ![t] = "run_generate"]
    /\ UNCHANGED <<response, temp_env, call_in, call_out, max_retries, handler, threads_started, keep_alives, venv_dir, children,
                   task_store, heap, stream_queues, queue, sink,
                   instructions_file, config_input_files, clock, stream, delivered,
                   cancel_calls, cancel_marked>>

\* One generate_code call and what the loop does with its result
\* (main_agent.py:150-189): when the generation failed, prepare_for_retry
\* decides between the next attempt and FAILURE_CODE_GENERATION.  sent is the
\* prompt the call was given; attempts records the provider's answer, and for
\* code that parses the program it is.
Run_Generate(t, outcome, program) ==
    /\ pc[t] = "run_generate"
    /\ outcome \in GenOutcomes
    /\ program \in ProgramNames
    /\ LET a == agent[t]
           codegen_result == generate_code(outcome)
           d == prepare_for_retry(a.prompt, GenerationFeedback(codegen_result),
                                  a.current_retry_attempt, max_retries)
           attempt == IF outcome = "ok" THEN program ELSE outcome
       IN IF ~GenerationFailed(codegen_result)
          THEN /\ agent' = [agent EXCEPT ![t].gen_calls = @ + 1, ![t].program = program,
                                         ![t].sent = a.prompt,
                                         ![t].attempts = Append(@, attempt)]
               /\ pc' = [pc EXCEPT ![t] = "run_execute"]
          ELSE IF d.should_retry
               THEN /\ agent' = [agent EXCEPT ![t].gen_calls = @ + 1,
                                              ![t].retry_calls = @ + 1,
                                              ![t].program = "none",
                                              ![t].sent = a.prompt,
                                              ![t].prompt = d.refined_prompt,
                                              ![t].attempts = Append(@, attempt),
                                              ![t].current_retry_attempt = d.next_retry_attempt]
                    /\ pc' = [pc EXCEPT ![t] = "run_generate"]
               ELSE /\ agent' = [agent EXCEPT ![t].gen_calls = @ + 1,
                                              ![t].retry_calls = @ + 1,
                                              ![t].program = "none",
                                              ![t].sent = a.prompt,
                                              ![t].attempts = Append(@, attempt),
                                              ![t].result = "FAILURE_CODE_GENERATION",
                                              ![t].message = "generation failed"]
                    /\ pc' = [pc EXCEPT ![t] = "a2a_map"]
    /\ UNCHANGED <<response, temp_env, call_in, call_out, max_retries, handler, threads_started, keep_alives, venv_dir, children,
                   task_store, heap, stream_queues, queue,
                   sink, instructions_file, config_input_files, clock, stream, delivered,
                   cancel_calls, cancel_marked>>

\* The execute_code call of the attempt and the rest of the iteration
\* (main_agent.py:191-312).
Run_Execute(t) ==
    /\ pc[t] = "run_execute"
    /\ LET a == agent[t]
           r == ExecuteStep(ProgramNamed(a.program), a.prompt, a.current_retry_attempt,
                            max_retries)
       IN /\ agent' = [agent EXCEPT ![t].exec_calls = @ + 1,
                                    ![t].retry_calls = IF r.retry_asked THEN @ + 1 ELSE @,
                                    ![t].current_retry_attempt = r.attempt,
                                    ![t].prompt = r.prompt,
                                    ![t].raised = r.raised,
                                    ![t].result = r.far.status,
                                    ![t].message = r.far.message]
          /\ pc' = [pc EXCEPT ![t] = IF r.kind = "retry" THEN "run_generate" ELSE "a2a_map"]
          /\ temp_env' = IF CallRaisesTypeError(ExecuteCodeCallKwargs, ExecuteCodeParams)
                           THEN temp_env
                           ELSE temp_env \cup finally_cleanup(ProgramNamed(a.program))
          /\ children' = IF CallRaisesTypeError(ExecuteCodeCallKwargs, ExecuteCodeParams)
                           THEN children
                           ELSE children \cup children_left(t, ProgramNamed(a.program))
    /\ UNCHANGED <<response, call_in, call_out, max_retries, handler, threads_started, keep_alives, venv_dir, task_store, heap,
                   stream_queues, queue, sink, instructions_file, config_input_files,
                   clock, stream, delivered, cancel_calls, cancel_marked>>

\* app_agent.py:263-287: progress 80 after a SUCCESS, then the result's status
\* is mapped to a state and the task's status is set to a new dict with it.
A2A_MapResult(t) ==
    /\ pc[t] = "a2a_map"
    /\ queue' = [queue EXCEPT ![t] =
                    IF agent[t].result = "SUCCESS" THEN Put(@, sink[t], ProgressEvent(80)) ELSE @]
    /\ NewStatus(t, status_map(agent[t].result), agent[t].message)
    /\ pc' = [pc EXCEPT ![t] = "a2a_status_put"]
    /\ UNCHANGED <<response, temp_env, call_in, call_out, max_retries, handler, threads_started, keep_alives, venv_dir, children,
                   stream_queues, sink, agent, instructions_file,
                   config_input_files, stream, delivered, cancel_calls, cancel_marked>>

\* app_agent.py:288: the status event of the mapped status, not final.
A2A_PutStatus(t) ==
    /\ pc[t] = "a2a_status_put"
    /\ queue' = [queue EXCEPT ![t] = Put(@, sink[t], StatusEvent(task_store[t].status, FALSE))]
    /\ pc' = [pc EXCEPT ![t] = "a2a_final"]
    /\ UNCHANGED <<response, temp_env, call_in, call_out, max_retries, handler, threads_started, keep_alives, venv_dir, children,
                   task_store, heap, stream_queues, sink, agent,
                   instructions_file, config_input_files, clock, stream, delivered,
                   cancel_calls, cancel_marked>>

\* app_agent.py:290-398: the artifact is appended to the task and put, then
\* the final status update is put.  Every result of MainAgent.run carries
\* execution_feedback, so there is always an artifact.
A2A_Final(t) ==
    /\ pc[t] = "a2a_final"
    /\ task_store' = [task_store EXCEPT ![t].artifacts = @ + 1]
    /\ queue' = [queue EXCEPT ![t] =
                    Put(Put(@, sink[t], ArtifactEvent), sink[t],
                        FinalStatusUpdate(task_store[t].status))]
    /\ pc' = [pc EXCEPT ![t] = "thread_finally"]
    /\ UNCHANGED <<response, temp_env, call_in, call_out, max_retries, handler, threads_started, keep_alives, venv_dir, children,
                   heap, stream_queues, sink, agent, instructions_file,
                   config_input_files, clock, stream, delivered, cancel_calls,
                   cancel_marked>>

\* The except clause of _run_async_task_in_thread (app_agent.py:434-441): the
\* task's status dict is changed in place to failed and a final event is put.
Thread_Except(t) ==
    /\ pc[t] = "thread_except"
    /\ MutateStatus(t, "failed", "exception detail")
    /\ queue' = [queue EXCEPT ![t] = Put(@, sink[t], StatusEvent(task_store[t].status, TRUE))]
    /\ pc' = [pc EXCEPT ![t] = "thread_finally"]
    /\ UNCHANGED <<response, temp_env, call_in, call_out, max_retries, handler, threads_started, keep_alives, venv_dir, children,
                   task_store, stream_queues, sink, agent,
                   instructions_file, config_input_files, stream, delivered,
                   cancel_calls, cancel_marked>>

\* A finally clause that puts nothing.
put_nothing(q, hasSink) == q

\* "if sync_stream_q: sync_stream_q.put(None)" (app_agent.py:446-448).
put_None(q, hasSink) == Put(q, hasSink, EndOfStream)

\* The finally clause of _run_async_task_in_thread (app_agent.py:442-450):
\* None is put to end the stream.
Thread_Finally(t) ==
    /\ pc[t] = "thread_finally"
    /\ queue' = [queue EXCEPT ![t] = put_None(@, sink[t])]
    /\ pc' = [pc EXCEPT ![t] = "done"]
    /\ UNCHANGED <<response, temp_env, call_in, call_out, max_retries, handler, threads_started, keep_alives, venv_dir, children,
                   task_store, heap, stream_queues, sink, agent,
                   instructions_file, config_input_files, clock, stream, delivered,
                   cancel_calls, cancel_marked>>

\* ------------------------------------------------------------ tasks/cancel
\* A tasks/cancel that leaves a completed or failed task alone and marks a
\* canceled one again.
CancelIsNoOpUnlessCanceled(state) == state \in CancelFinalStates \ {"canceled"}

\* The states in which tasks/cancel leaves the task alone (app_agent.py:786).
CancelIsNoOp(state) == state \in CancelFinalStates

\* file_processor_tasks_cancel (app_agent.py:768-806) for a stored task: a
\* task not in a final state has its status dict changed in place to canceled
\* and, when its id is in stream_queues, a final event put on its queue.
Cancel(t) ==
    /\ task_store[t].present
    /\ cancel_calls[t] < MaxCancels
    /\ cancel_calls' = [cancel_calls EXCEPT ![t] = @ + 1]
    /\ IF ~CancelIsNoOp(State(t))
       THEN /\ MutateStatus(t, "canceled", "cancel")
            /\ cancel_marked' = [cancel_marked EXCEPT ![t] = TRUE]
            /\ queue' = [queue EXCEPT ![t] =
                            IF stream_queues[t]
                            THEN Append(@, StatusEvent(task_store[t].status, TRUE))
                            ELSE @]
       ELSE UNCHANGED <<clock, heap, cancel_marked, queue>>
    /\ UNCHANGED <<response, temp_env, call_in, call_out, max_retries, handler, threads_started, keep_alives, venv_dir, children,
                   task_store, stream_queues, sink, pc, agent,
                   instructions_file, config_input_files, stream, delivered>>

\* --------------------------------------------------------- event_generator
\* What the client receives for a queued event: json.dumps reads the status
\* dict when the event is taken from the queue.
Rendered(t, e) ==
    [event_type |-> e.event_type, final |-> e.final, progress |-> e.progress,
     status |-> IF e.status = 0 THEN StatusDict("none", 0, "none") ELSE heap[t][e.status]]

\* A stream that no event ends.
EndsStreamNever(e) == FALSE

\* app_agent.py:617: "if update_event.get("final"): break".
EndsStream(e) == e.final

\* A finally that leaves the queue registered.
finally_keep(registered) == registered

\* The finally of event_generator (app_agent.py:630-633), run when the
\* generator ends: "del stream_queues[task_id]".
finally_del(registered) == FALSE

\* stream_queues[task_id] after a step of the generator that leaves it in the
\* given state: the finally runs once the generator is no longer open.
AfterGeneratorStep(state, registered) ==
    IF state = "open" THEN registered ELSE finally_del(registered)

\* One sync_stream_q.get that returns an event (app_agent.py:603-633): None
\* ends the stream, any other event is yielded, and a final one ends the
\* stream after it; the generator's finally removes the queue from
\* stream_queues.
Stream_Get(t) ==
    /\ stream[t] = "open"
    /\ queue[t] # << >>
    /\ LET e == Head(queue[t])
       IN /\ queue' = [queue EXCEPT ![t] = Tail(@)]
          /\ IF e = EndOfStream
             THEN /\ stream' = [stream EXCEPT ![t] = "closed"]
                  /\ UNCHANGED delivered
             ELSE /\ delivered' = [delivered EXCEPT ![t] = Append(@, Rendered(t, e))]
                  /\ stream' = [stream EXCEPT ![t] = IF EndsStream(e) THEN "closed" ELSE "open"]
          /\ stream_queues' = [stream_queues EXCEPT ![t] = AfterGeneratorStep(stream[t]', @)]
    /\ UNCHANGED <<response, temp_env, call_in, call_out, max_retries, handler, threads_started, keep_alives, venv_dir, children,
                   task_store, heap, sink, pc, agent, instructions_file,
                   config_input_files, clock, cancel_calls, cancel_marked>>

\* A generator that leaves its loop when the queue stays empty.
break_on_queue_Empty(state) == "closed"

\* "except queue.Empty: yield keep-alive; continue" (app_agent.py:620-623):
\* the state of the generator after the clause.
except_queue_Empty(state) == state

\* One sync_stream_q.get(timeout=1.0) that finds the queue empty for the whole
\* second (app_agent.py:606, 620-623): a keep-alive comment is yielded and the
\* loop continues; a generator that ended would run its finally.
Stream_KeepAlive(t) ==
    /\ stream[t] = "open"
    /\ queue[t] = << >>
    /\ keep_alives[t] < MaxKeepAlives
    /\ keep_alives' = [keep_alives EXCEPT ![t] = @ + 1]
    /\ stream' = [stream EXCEPT ![t] = except_queue_Empty(@)]
    /\ stream_queues' = [stream_queues EXCEPT ![t] = AfterGeneratorStep(stream[t]', @)]
    /\ UNCHANGED <<response, temp_env, call_in, call_out, max_retries, handler, threads_started, venv_dir, children,
                   task_store, heap, queue, sink, pc, agent, instructions_file,
                   config_input_files, clock, delivered, cancel_calls, cancel_marked>>

\* The client closes the connection: the server closes the generator at its
\* yield and the generator's finally runs (app_agent.py:630-633).
Stream_Disconnect(t) ==
    /\ stream[t] = "open"
    /\ stream' = [stream EXCEPT ![t] = "disconnected"]
    /\ stream_queues' = [stream_queues EXCEPT ![t] = AfterGeneratorStep(stream[t]', @)]
    /\ UNCHANGED <<response, temp_env, call_in, call_out, max_retries, handler, threads_started, keep_alives,
                   venv_dir, children, task_store, heap, queue, sink, pc, agent,
                   instructions_file, config_input_files, clock, delivered,
                   cancel_calls, cancel_marked>>

\* ------------------------------------------------------------ specification
\* The steps of the background thread of task t.
ThreadStep(t) ==
    \/ \E o \in {"ok", "bad_config", "ctor_raises"} : A2A_Start(t, o)
    \/ A2A_FailPut(t)
    \/ A2A_SetSubmitted(t)
    \/ A2A_PutSubmitted(t)
    \/ \E ok \in BOOLEAN : A2A_WriteInstructions(t, ok)
    \/ Run_Start(t)
    \/ \E o \in GenOutcomes, p \in ProgramNames : Run_Generate(t, o, p)
    \/ Run_Execute(t)
    \/ A2A_MapResult(t)
    \/ A2A_PutStatus(t)
    \/ A2A_Final(t)
    \/ Thread_Except(t)
    \/ Thread_Finally(t)

\* One client, one task: every request, the thread and the stream interleave.
Next ==
    \/ \E streaming \in BOOLEAN, request \in Requests : Submit("t1", streaming, request)
    \/ Send_Return("t1")
    \/ ThreadStep("t1")
    \/ Cancel("t1")
    \/ Stream_Get("t1")
    \/ Stream_KeepAlive("t1")
    \/ Stream_Disconnect("t1")

Spec == Init /\ [][Next]_vars

\* Two clients, two tasks sent with tasks/send and run concurrently.
NextTwo ==
    \/ \E t \in TaskIds : Submit(t, FALSE, [text |-> TRUE, files |-> TRUE])
    \/ \E t \in TaskIds : Send_Return(t)
    \/ \E t \in TaskIds : ThreadStep(t)

InitTwo == Init /\ max_retries <= MaxRetriesTwoTasks

SpecTwo == InitTwo /\ [][NextTwo]_vars

\* ------------------------------------------- direct calls of the modules
\* The prompts, feedback lists and attempt indices a caller of
\* prepare_for_retry passes (feedback_control_module.py:48-84 passes the
\* refined prompt of one call to the next).
RetryPrompts ==
    { <<"Create a function to add two numbers.">>,
      <<"Create a function to add two numbers.", "", "--- Previous Attempt Feedback ---",
        "Stdout mismatch", "--- End of Feedback ---">> }

RetryFeedbacks ==
    { << >>,
      << <<"Syntax error in generated code">> >>,
      << <<"Execution failed: ZeroDivisionError">>, <<"Stdout mismatch">> >> }

RetryCalls ==
    [original_prompt : RetryPrompts, validation_feedback : RetryFeedbacks,
     current_retry_attempt : 0..(MaxRetriesBound + 1)]

InitRetry ==
    /\ ServiceInit
    /\ call_in \in {{c} : c \in RetryCalls}
    /\ call_out = {}

\* feedback_controller.prepare_for_retry(...) on a controller built with
\* max_retries.
Call_prepare_for_retry ==
    /\ call_out = {}
    /\ call_out' = {prepare_for_retry(c.original_prompt, c.validation_feedback,
                                      c.current_retry_attempt, max_retries) : c \in call_in}
    /\ UNCHANGED <<response, temp_env, call_in, max_retries, handler, threads_started, keep_alives, venv_dir, children, task_store, heap,
                   stream_queues, queue, sink, pc, agent, instructions_file,
                   config_input_files, clock, stream, delivered, cancel_calls,
                   cancel_marked>>

NextRetry == Call_prepare_for_retry

SpecRetry == InitRetry /\ [][NextRetry]_vars

\* What a program given to execute_code writes to stdout or stderr.
ExecTexts ==
    { << >>, <<"ws">>, <<"8", "ws">>, <<"ws", "Error:", "no", "sheet">>,
      <<"Traceback", "(most", "recent", "call", "last):">>, <<"Failed", "to", "open">>,
      <<"Could", "not", "process">>, <<"DeprecationWarning:", "old">>,
      <<"FileNotFoundError:", "in.xlsx">> }

ExitCodes == {0, 1, 2}

\* The runs of a direct call of execute_code.
ExecRuns ==
    [name : {"direct"}, code_string : {<< >>, <<"ws">>, <<"code">>}, raises : BOOLEAN,
     install_ok : BOOLEAN, overtime : BOOLEAN, exit_code : ExitCodes,
     stdout : ExecTexts, stderr : ExecTexts, remove_ok : BOOLEAN, rmtree_ok : BOOLEAN]

InitExec ==
    /\ ServiceInit
    /\ call_in \in {{c} : c \in ExecRuns}
    /\ call_out = {}

\* code_executor.execute_code(code) (code_execution_module.py:224-300).
Call_execute_code ==
    /\ call_out = {}
    /\ call_out' = {execute_code(c) : c \in call_in}
    /\ temp_env' = temp_env \cup UNION {finally_cleanup(c) : c \in call_in}
    /\ children' = children \cup UNION {children_left(c.name, c) : c \in call_in}
    /\ UNCHANGED <<response, call_in, max_retries, handler, threads_started, keep_alives, venv_dir, task_store, heap,
                   stream_queues, queue, sink, pc, agent, instructions_file,
                   config_input_files, clock, stream, delivered, cancel_calls,
                   cancel_marked>>

NextExec == Call_execute_code

SpecExec == InitExec /\ [][NextExec]_vars

\* ------------------------------------------------ OutputDeliveryModule
\* A module that marks every result it judges as failed.
OverridesStatusOfAnyResult(execution_passed, status) == ~execution_passed

\* output_delivery_module.py:80: "if not execution_passed and
\* final_result.get("status") == "SUCCESS"".
OverridesStatus(execution_passed, status) == ~execution_passed /\ status = "SUCCESS"

\* The execution result {} as its .get calls read it
\* (output_delivery_module.py:38-47, 57): no success, the default error text,
\* exit code 0, nothing on stdout or stderr.
NoExecutionResult ==
    [stdout |-> << >>, stderr |-> << >>, exit_code |-> 0, success |-> FALSE,
     error |-> <<"Execution reported failure with no specific error message.">>]

\* The first feedback item (output_delivery_module.py:73).
Verdict(execution_passed) ==
    <<"Execution result (from output module):",
      IF execution_passed THEN "Passed" ELSE "Failed">>

\* process_and_deliver_output(final_result, execution_result, expected_stdout,
\* test_cases) (output_delivery_module.py:33-82, 127): the result it returns.
\* A feedback item is a text; test_cases says whether the list is non-empty.
process_and_deliver_output(final_result, execution_result, expected_stdout, test_cases) ==
    LET exec_error == execution_result.error
        failed_feedback ==
            <<"Execution failed. Detail:">> \o exec_error
                \o (IF execution_result.exit_code # 0 THEN <<"Exit Code:">> ELSE << >>)
                \o (IF execution_result.stderr # << >>
                    THEN <<"Stderr:">> \o execution_result.stderr
                    ELSE IF execution_result.stdout # << >>
                            /\ ~\E i \in 0..(Len(exec_error) - Len(execution_result.stdout)) :
                                   \A j \in 1..Len(execution_result.stdout) :
                                       exec_error[i + j] = execution_result.stdout[j]
                         THEN <<"Stdout:">> \o execution_result.stdout
                         ELSE << >>)
        first == IF ~execution_result.success
                 THEN <<failed_feedback>>
                 ELSE << <<"Execution reported success">> >>
        compared == execution_result.success /\ expected_stdout # PyNone
        matches == execution_result.stdout = expected_stdout
        second == IF ~compared THEN << >>
                  ELSE IF matches THEN << <<"Stdout matches expected output.">> >>
                  ELSE << <<"Stdout mismatch.">> \o expected_stdout \o execution_result.stdout >>
        third == IF test_cases THEN << <<"Dynamic test cases processed">> >> ELSE << >>
        execution_passed == execution_result.success /\ (compared => matches)
        overridden == OverridesStatus(execution_passed, final_result.status)
    IN [status |-> IF overridden THEN "FAILURE_EXECUTION" ELSE final_result.status,
        message |-> IF overridden THEN Verdict(execution_passed) ELSE final_result.message,
        execution_feedback |-> <<Verdict(execution_passed)>> \o first \o second \o third]

\* The results MainAgent.run and the module's examples pass: the status, "none"
\* when the dict has none, a message and the feedback the dict has already.
FinalResults ==
    [status : {"SUCCESS", "FAILURE_CODE_GENERATION", "FAILURE_EXECUTION",
               "CRITICAL_FAILURE_UNHANDLED_EXCEPTION", "none"},
     message : {<<"Initial message.">>},
     execution_feedback : {<< >>, << <<"Code generation failed feedback.">> >>}]

\* The execution results passed: those execute_code returns, {} and those of
\* the module's examples.
ExecutionResults ==
    {execute_code(p) : p \in Programs}
        \cup {NoExecutionResult,
              [stdout |-> <<"Hello">>, stderr |-> << >>, exit_code |-> 0, success |-> TRUE,
               error |-> PyNone],
              [stdout |-> <<"Hi">>, stderr |-> << >>, exit_code |-> 0, success |-> TRUE,
               error |-> PyNone],
              [stdout |-> << >>, stderr |-> <<"Error:", "Something went wrong">>,
               exit_code |-> 1, success |-> FALSE,
               error |-> <<"Error:", "Something went wrong">>]}

DeliverCalls ==
    [final_result : FinalResults, execution_result : ExecutionResults,
     expected_stdout : {PyNone, <<"Hello">>, <<"8">>}, test_cases : BOOLEAN]

InitDeliver ==
    /\ ServiceInit
    /\ call_in \in {{c} : c \in DeliverCalls}
    /\ call_out = {}

\* output_deliverer.process_and_deliver_output(...) on the arguments of the
\* call.
Call_process_and_deliver_output ==
    /\ call_out = {}
    /\ call_out' = {process_and_deliver_output(c.final_result, c.execution_result,
                                               c.expected_stdout, c.test_cases) :
                        c \in call_in}
    /\ UNCHANGED <<response, temp_env, call_in, max_retries, handler, threads_started, keep_alives, venv_dir,
                   children, task_store, heap, stream_queues, queue, sink, pc, agent,
                   instructions_file, config_input_files, clock, stream, delivered,
                   cancel_calls, cancel_marked>>

NextDeliver == Call_process_and_deliver_output

SpecDeliver == InitDeliver /\ [][NextDeliver]_vars

\* ------------------------------------ send requests that overlap
\* The handler of client c's request for id t up to its id check
\* (app_agent.py:501-508, 552-559): 409 when the id is in task_store.
Send_Check(c, t, streaming, request) ==
    /\ handler[c].at = "idle"
    /\ request \in Requests
    /\ handler' = [handler EXCEPT
                      ![c] = [at |-> IF task_store[t].present THEN "409" ELSE "checked",
                              streaming |-> streaming, text |-> request.text,
                              files |-> request.files]]
    /\ UNCHANGED <<response, temp_env, call_in, call_out, max_retries, threads_started,
                   keep_alives, venv_dir, children, task_store, heap, stream_queues,
                   queue, sink, pc, agent, instructions_file, config_input_files, clock,
                   stream, delivered, cancel_calls, cancel_marked>>

\* The rest of the handler (app_agent.py:509-546, 560-599) for a request that
\* passed the id check.
Send_Store(c, t) ==
    /\ handler[c].at = "checked"
    /\ SubmitNewId(t, handler[c].streaming,
                   [text |-> handler[c].text, files |-> handler[c].files])
    /\ handler' = [handler EXCEPT ![c].at = response[t]'.code]

\* Two clients send a request with the same id.
NextSameId ==
    \/ \E c \in Clients, streaming \in BOOLEAN, request \in Requests :
          Send_Check(c, "t1", streaming, request)
    \/ \E c \in Clients : Send_Store(c, "t1")

SpecSameId == Init /\ [][NextSameId]_vars

\* ------------------------------------- execute_code calls that overlap
\* The names tempfile.mkdtemp can give a directory under temp_env.
DirNames == {"agent_venv_a", "agent_venv_b", "agent_venv_c"}

\* A mkdtemp that does not look at what exists.
mkdtemp_any(existing) == DirNames

\* tempfile.mkdtemp(prefix="agent_venv_", dir=temp_base_dir)
\* (code_execution_module.py:96): the directory is created under a name that
\* no existing path has; the result is the set of names it may get.
mkdtemp(existing) == DirNames \ existing

\* execute_code up to the creation of its environment directory
\* (code_execution_module.py:71-96), called for an attempt of task t; a run
\* makes at most max_retries + 1 attempts.
Exec_Mkdtemp(t, d) ==
    /\ pc[t] = "idle"
    /\ agent[t].exec_calls <= max_retries
    /\ d \in mkdtemp(temp_env)
    /\ venv_dir' = [venv_dir EXCEPT ![t] = d]
    /\ temp_env' = temp_env \cup {d}
    /\ agent' = [agent EXCEPT ![t].exec_calls = @ + 1]
    /\ pc' = [pc EXCEPT ![t] = "exec_run"]
    /\ UNCHANGED <<response, call_in, call_out, max_retries, handler, threads_started, keep_alives, children, task_store, heap,
                   stream_queues, queue, sink, instructions_file, config_input_files,
                   clock, stream, delivered, cancel_calls, cancel_marked>>

\* The rest of the call (code_execution_module.py:98-221): the program p is
\* run in the directory of the call and the result returned; the finally
\* block deletes the directory unless shutil.rmtree raises.
Exec_Return(t, p, rmtree_ok) ==
    /\ pc[t] = "exec_run"
    /\ call_out' = {execute_code(p)}
    /\ temp_env' = IF rmtree_ok THEN temp_env \ {venv_dir[t]} ELSE temp_env
    /\ venv_dir' = [venv_dir EXCEPT ![t] = "None"]
    /\ children' = children \cup children_left(t, p)
    /\ pc' = [pc EXCEPT ![t] = "idle"]
    /\ UNCHANGED <<response, call_in, max_retries, handler, threads_started, keep_alives, task_store, heap,
                   stream_queues, queue, sink, agent, instructions_file,
                   config_input_files, clock, stream, delivered, cancel_calls,
                   cancel_marked>>

\* The attempts of two concurrently running tasks call execute_code.
NextEnv ==
    \/ \E t \in TaskIds, d \in DirNames : Exec_Mkdtemp(t, d)
    \/ \E t \in TaskIds, p \in Programs, rmtree_ok \in BOOLEAN : Exec_Return(t, p, rmtree_ok)

SpecEnv == Init /\ [][NextEnv]_vars


\* ------------------------------------------------------------------ claims
Last(q) == q[Len(q)]

\* The thread of t has ended.
Done(t) == pc[t] = "done"

\* The order submitted -> working -> terminal.
Rank(state) ==
    CASE state = "absent" -> 0
      [] state = "submitted" -> 1
      [] state = "working" -> 2
      [] state \in TerminalStates -> 3
      [] OTHER -> 0

\* C1: a task's status state only moves forward through submitted -> working
\* -> {completed, failed, canceled}; once it is terminal no later step changes
\* it (the status tasks/cancel wrote is not replaced by the background run).
C1_StatusOnlyMovesForward ==
    [][\A t \in TaskIds :
          /\ Rank(State(t)') >= Rank(State(t))
          /\ State(t) \in TerminalStates => State(t)' = State(t)]_vars


\* Every attempt of t ended in a failure that is to be retried: its generation
\* failed, or its program fails with a non-critical error.
OnlyRetryableFailures(t) ==
    /\ agent[t].attempts # << >>
    /\ \A i \in 1..Len(agent[t].attempts) :
          agent[t].attempts[i] \in {"syntax_invalid", "extraction_failed", "transient"}

\* The run of t has ended and no tasks/cancel changed the task.
RanUncanceled(t) == Done(t) /\ agent[t].result # "none" /\ ~cancel_marked[t]

\* C2: with max_retries = N and every attempt ending in a retryable failure,
\* the run makes at most N+1 generate_code calls and at most N+1 execute_code
\* calls, the attempt counter never exceeds N, and the task is finalized as
\* failed.
C2_BoundedCyclesThenFailed ==
    \A t \in TaskIds :
        OnlyRetryableFailures(t) =>
            /\ agent[t].gen_calls <= max_retries + 1
            /\ agent[t].exec_calls <= max_retries + 1
            /\ agent[t].current_retry_attempt <= max_retries
            /\ RanUncanceled(t) => State(t) = "failed"

\* The last attempt of t ran a program that fails critically or times out.
FatalOutcome(t) ==
    /\ agent[t].exec_calls > 0
    /\ agent[t].attempts # << >>
    /\ Last(agent[t].attempts) \in {"critical", "timeout"}

\* C3: when the execution outcome of attempt k is a critical failure or a
\* timeout, the task is finalized as failed with exactly k attempts made and
\* prepare_for_retry is not consulted for it.
C3_FatalOutcomeFailsWithoutRetry ==
    \A t \in TaskIds :
        (FatalOutcome(t) /\ RanUncanceled(t)) =>
            /\ State(t) = "failed"
            /\ agent[t].gen_calls = Len(agent[t].attempts)
            /\ agent[t].retry_calls = Len(agent[t].attempts) - 1

\* C4: every accepted task reaches a terminal status: when its background
\* thread has ended, the task is completed, failed or canceled.
C4_EndsInTerminalStatus ==
    \A t \in TaskIds : Done(t) => State(t) \in TerminalStates

\* C5: an exception raised inside the loop of MainAgent.run ends the task in
\* state failed with a message that carries the exception detail.
C5_ExceptionBecomesFailed ==
    \A t \in TaskIds :
        (agent[t].raised /\ RanUncanceled(t)) =>
            /\ State(t) = "failed"
            /\ TaskStatus(t).message = "exception detail"

\* The final events on the queue of t and among those delivered.
FinalStates(t) ==
    {heap[t][queue[t][i].status].state :
        i \in {j \in 1..Len(queue[t]) : queue[t][j].final}}
    \cup {delivered[t][i].status.state :
        i \in {j \in 1..Len(delivered[t]) : delivered[t][j].final}}

\* C6: a transient execution failure with no retries left finalizes the task
\* as failed, in the stored task and in the final status event.
C6_ExhaustedRetriesFail ==
    \A t \in TaskIds :
        (/\ RanUncanceled(t)
         /\ agent[t].exec_calls > 0
         /\ Last(agent[t].attempts) = "transient"
         /\ agent[t].current_retry_attempt >= max_retries)
        => /\ State(t) = "failed"
           /\ FinalStates(t) \subseteq {"failed"}

\* C7: after tasks/cancel marked a streaming task canceled, the task's final
\* snapshot is canceled, also once the background run has ended, and the last
\* event the stream delivered is final.
C7_CanceledStaysCanceled ==
    \A t \in TaskIds :
        (cancel_marked[t] /\ sink[t] /\ Done(t) /\ stream[t] = "closed") =>
            /\ State(t) = "canceled"
            /\ delivered[t] # << >> /\ Last(delivered[t]).final

\* C8: once tasks/cancel marked the task canceled, its drive loop starts no
\* generate_code call for a retry and no execute_code call.
C8_NoAttemptAfterCancel ==
    [][\A t \in TaskIds :
          cancel_marked[t] =>
              /\ agent[t].exec_calls' = agent[t].exec_calls
              /\ agent[t].gen_calls > 0 => agent[t].gen_calls' = agent[t].gen_calls]_vars


\* C9: tasks/cancel of a task in a terminal state changes nothing: the status
\* dict (state, timestamp, message), the task's artifacts and its queue stay
\* as they are and no event is put; a second cancel after a first one finds
\* the task canceled and is such a no-op.
C9_CancelOfTerminalTaskIsNoOp ==
    [][\A t \in TaskIds :
          (cancel_calls'[t] # cancel_calls[t] /\ State(t) \in TerminalStates) =>
              /\ heap'[t] = heap[t]
              /\ task_store'[t] = task_store[t]
              /\ queue'[t] = queue[t]
              /\ delivered'[t] = delivered[t]
              /\ clock'[t] = clock[t]
              /\ stream_queues'[t] = stream_queues[t]]_vars

\* A second tasks/cancel was handled after the first one marked the task, the
\* status still being the one the first cancel wrote.
C9_Witness ==
    \E t \in TaskIds :
        /\ cancel_calls[t] = 2
        /\ cancel_marked[t]
        /\ State(t) = "canceled"
        /\ TaskStatus(t).timestamp = 2
        /\ clock[t] = 2

\* C10: the run of a task reads the instruction text and the input file list
\* that were submitted with that task, never those of another task.
C10_RunReadsOwnInputs ==
    \A t \in TaskIds :
        /\ agent[t].instr \in {NoTask, t}
        /\ agent[t].files \in {NoTask, t}


\* The status states of the specification.
SpecStates == {"submitted", "working", "completed", "failed", "canceled"}

\* C11: the status state of every stored task, and the state carried by every
\* status event put on a queue or delivered, is one of submitted, working,
\* completed, failed, canceled, whatever MainAgent.run returned.
C11_StateIsOneOfFive ==
    \A t \in TaskIds :
        /\ task_store[t].present => State(t) \in SpecStates
        /\ \A i \in 1..Len(queue[t]) :
              queue[t][i].status # 0 => heap[t][queue[t][i].status].state \in SpecStates
        /\ \A i \in 1..Len(delivered[t]) :
              delivered[t][i].event_type = "task_status_update"
                  => delivered[t][i].status.state \in SpecStates

\* C12: when the provider reports the prompt blocked, the task is finalized
\* as failed on that attempt: prepare_for_retry is not consulted for it and no
\* generate_code call follows, whatever max_retries is.
C12_BlockedPromptEndsTask ==
    \A t \in TaskIds :
        \A i \in 1..Len(agent[t].attempts) :
            agent[t].attempts[i] = "blocked" =>
                /\ i = Len(agent[t].attempts)
                /\ agent[t].result = "FAILURE_CODE_GENERATION"
                /\ agent[t].retry_calls = i - 1

\* The attempts of t whose generation returned code that parses.
ValidGenerations(t) ==
    {i \in 1..Len(agent[t].attempts) : agent[t].attempts[i] \in ProgramNames}

\* C13: the loop of a task is sequential and execute_code is called only
\* after the attempt's generate_code returned code with no error and valid
\* syntax; an attempt whose generation fails by extraction failure or invalid
\* syntax executes nothing, is retried while the retry limit allows and then
\* the task is finalized as failed.
C13_ExecutionOnlyAfterValidGeneration ==
    \A t \in TaskIds :
        LET a == agent[t] IN
        /\ a.gen_calls = Len(a.attempts)
        /\ a.exec_calls <= Cardinality(ValidGenerations(t))
        /\ pc[t] = "run_execute" =>
              /\ a.attempts # << >> /\ Last(a.attempts) \in ProgramNames
              /\ a.exec_calls = Cardinality(ValidGenerations(t)) - 1
        /\ (a.attempts # << >> /\ Last(a.attempts) \in {"syntax_invalid", "extraction_failed"}) =>
              /\ pc[t] # "run_execute"
              /\ pc[t] = "run_generate" =>
                    /\ Len(a.attempts) <= max_retries
                    /\ a.current_retry_attempt = Len(a.attempts)
              /\ pc[t] # "run_generate" =>
                    /\ a.result = "FAILURE_CODE_GENERATION"
                    /\ Len(a.attempts) = max_retries + 1
              /\ Done(t) => State(t) = "failed"

\* Every generation of t failed by invalid syntax or extraction failure, no
\* code was executed, and the task ended failed after max_retries + 1 attempts.
C13_Witness ==
    \E t \in TaskIds :
        /\ Done(t)
        /\ max_retries = 2
        /\ agent[t].attempts = <<"syntax_invalid", "extraction_failed", "syntax_invalid">>
        /\ agent[t].exec_calls = 0
        /\ State(t) = "failed"

\* The feedback sections of a prompt.
FeedbackSections(prompt) ==
    Cardinality({i \in 1..Len(prompt) : prompt[i] = "--- Previous Attempt Feedback ---"})

\* C14: the prompt of every attempt n >= 2 is the prompt of attempt 1 with
\* one feedback section appended: it holds exactly one
\* '--- Previous Attempt Feedback ---' section, however many attempts were made.
C14_RetryPromptHasOneFeedbackSection ==
    \A t \in TaskIds :
        agent[t].gen_calls >= 2 => FeedbackSections(agent[t].sent) = 1


\* The sequence part occurs in the sequence whole, in a row.
Contains(whole, part) ==
    \E i \in 0..(Len(whole) - Len(part)) :
        \A j \in 1..Len(part) : whole[i + j] = part[j]

\* C15: prepare_for_retry(prompt, feedback, k) returns should_retry = false,
\* refined_prompt = None and next_retry_attempt = k exactly when
\* k >= max_retries; otherwise it returns should_retry = true,
\* next_retry_attempt = k + 1 and a refined prompt that contains the prompt
\* and every feedback string.  The call changes no state of the controller.
C15_PrepareForRetryContract ==
    [][call_out' # call_out =>
          /\ max_retries' = max_retries
          /\ \A c \in call_in, r \in call_out' :
                IF c.current_retry_attempt >= max_retries
                THEN /\ ~r.should_retry
                     /\ r.refined_prompt = PyNone
                     /\ r.next_retry_attempt = c.current_retry_attempt
                ELSE /\ r.should_retry
                     /\ r.next_retry_attempt = c.current_retry_attempt + 1
                     /\ Contains(r.refined_prompt, c.original_prompt)
                     /\ \A i \in 1..Len(c.validation_feedback) :
                           Contains(r.refined_prompt, c.validation_feedback[i])]_vars

\* A call at the limit (k = max_retries > 0) returned no retry for a prompt
\* that already holds a feedback section.
C15_Witness ==
    \E c \in call_in, r \in call_out :
        /\ max_retries > 0
        /\ c.current_retry_attempt = max_retries
        /\ Len(c.original_prompt) > 1
        /\ Len(c.validation_feedback) = 2
        /\ ~r.should_retry

\* The run got as far as the program's exit: there is code, the environment
\* was created, the packages installed and the program ended in time.
RanToExit(run) ==
    /\ strip(run.code_string) # << >>
    /\ ~run.raises
    /\ run.install_ok
    /\ ~run.overtime

\* The phrases of the specification's error scan, found in a text.
HasErrorPhrase(text) ==
    \E i \in 1..Len(text) :
        \/ Lower(text[i]) \in {"error:", "exception:", "traceback"}
        \/ i < Len(text) /\ Lower(text[i]) \in {"failed", "could"}

WarningOnly(text) ==
    text # << >> /\ text[1] \in {"DeprecationWarning:", "RuntimeWarning:", "UserWarning:"}

\* C17: a run that exits with code 0, whose stderr holds only warning-shaped
\* lines and whose stdout has no error pattern is classified as success.
C17_WarningOnlyStderrIsSuccess ==
    \A c \in call_in, r \in call_out :
        (/\ c.name = "direct"
         /\ RanToExit(c)
         /\ c.exit_code = 0
         /\ WarningOnly(strip(c.stderr))
         /\ ~HasErrorPhrase(c.stdout))
        => r.success

\* C18: for every run that exits with code 0 and has a stderr that is not
\* empty once stripped, execute_code returns success = false and the error is
\* that stderr, whatever stderr and stdout hold.
C18_ExitZeroWithStderrFails ==
    \A c \in call_in, r \in call_out :
        (/\ c.name = "direct"
         /\ RanToExit(c)
         /\ c.exit_code = 0
         /\ \E i \in 1..Len(c.stderr) : c.stderr[i] # "ws")
        => /\ ~r.success
           /\ r.error = r.stderr
           /\ Contains(c.stderr, r.error)
           /\ r.error # << >> /\ r.error[1] # "ws" /\ Last(r.error) # "ws"

\* A run with exit code 0, a clean stdout and a single warning on stderr was
\* reported as a failure with the warning as its error.
C18_Witness ==
    \E c \in call_in, r \in call_out :
        /\ c.name = "direct"
        /\ RanToExit(c)
        /\ c.exit_code = 0
        /\ c.stderr = <<"DeprecationWarning:", "old">>
        /\ c.stdout = <<"8", "ws">>
        /\ ~r.success
        /\ r.error = <<"DeprecationWarning:", "old">>

\* The signatures of unrecoverable errors.
UnrecoverableSignatures ==
    {"ModuleNotFoundError:", "FileNotFoundError:", "PermissionError:",
     "SyntaxError:", "IndentationError:"}

HasUnrecoverableSignature(text) ==
    \E i \in 1..Len(text) : text[i] \in UnrecoverableSignatures

\* C19: a run with a non-zero exit code whose stderr or stdout matches an
\* unrecoverable-error signature is a critical failure: the task is finalized
\* as failed on that attempt, without a retry (a FileNotFoundError on stderr
\* with exit code 1 ends the task failed on attempt 1 whatever max_retries is).
C19_UnrecoverableErrorEndsTaskFailed ==
    \A t \in TaskIds :
        (/\ agent[t].exec_calls > 0
         /\ pc[t] # "run_execute"
         /\ Last(agent[t].attempts) \in ProgramNames
         /\ LET p == ProgramNamed(Last(agent[t].attempts))
            IN /\ ~p.overtime
               /\ p.exit_code # 0
               /\ HasUnrecoverableSignature(p.stderr \o p.stdout))
        => /\ agent[t].retry_calls = Len(agent[t].attempts) - 1
           /\ pc[t] # "run_generate"
           /\ (Done(t) /\ ~cancel_marked[t]) => State(t) = "failed"

\* C20: a run that exits with code 0 and empty stderr but whose stdout matches
\* a known error phrase is a transient failure: while retries remain, the
\* loop goes on to the next attempt.
C20_StdoutErrorIsRetried ==
    \A t \in TaskIds :
        (/\ agent[t].attempts # << >>
         /\ Last(agent[t].attempts) = "stdout_error"
         /\ pc[t] # "run_execute"
         /\ Len(agent[t].attempts) <= max_retries)
        => /\ pc[t] = "run_generate"
           /\ agent[t].current_retry_attempt = Len(agent[t].attempts)

\* C21: once execute_code has returned, on whatever path, neither the
\* environment directory nor the program file it created is left.
C21_NothingLeftAfterExecution == call_out # {} => temp_env = {}

\* C22: when the packages of an attempt cannot be installed, execute_code
\* returns a failure without running the program, no further attempt is made
\* and the task is finalized as failed.
C22_InstallFailureEndsTaskFailed ==
    \A t \in TaskIds :
        (/\ agent[t].exec_calls > 0
         /\ pc[t] # "run_execute"
         /\ agent[t].attempts # << >>
         /\ Last(agent[t].attempts) = "install_fails")
        => /\ ~execute_code(ProgramNamed("install_fails")).success
           /\ "temp_file" \notin finally_cleanup(ProgramNamed("install_fails"))
           /\ pc[t] # "run_generate"
           /\ agent[t].retry_calls = Len(agent[t].attempts) - 1
           /\ (Done(t) /\ ~cancel_marked[t]) => State(t) = "failed"

\* C23: a send request with no instruction text and no usable file is
\* answered 400 before a task exists: no task_store entry, no stream queue,
\* no background thread and no attempt.
C23_EmptyRequestCreatesNothing ==
    \A t \in TaskIds :
        (response[t].code # "none" /\ ~response[t].text /\ ~response[t].files)
        => /\ response[t].code = "400"
           /\ ~task_store[t].present
           /\ ~stream_queues[t]
           /\ queue[t] = << >>
           /\ pc[t] = "idle"
           /\ agent[t] = AgentInit

C23_Witness ==
    /\ response["t1"] = [code |-> "400", text |-> FALSE, files |-> FALSE]
    /\ ~task_store["t1"].present

\* C24: the response of an accepted tasks/send reports the task in state
\* submitted, however the handler and the background thread interleave.
C24_SendResponseReportsSubmitted ==
    \A t \in TaskIds :
        response[t].code \notin {"none", "400", "stream", "pending"}
            => response[t].code = "submitted"

\* C25: with max_retries = 2 and the first two attempts ending in a transient
\* failure, the run ends as failed after exactly two generate/execute cycles;
\* the controller refuses a retry after the second.
C25_TwoTransientFailuresEndTheRun ==
    \A t \in TaskIds :
        (/\ max_retries = 2
         /\ RanUncanceled(t)
         /\ agent[t].attempts # << >>
         /\ \A i \in 1..Len(agent[t].attempts) : i <= 2 => agent[t].attempts[i] = "transient")
        => /\ Len(agent[t].attempts) = 2
           /\ agent[t].gen_calls = 2
           /\ agent[t].exec_calls = 2
           /\ ~prepare_for_retry(agent[t].prompt, << >>, 1, max_retries).should_retry
           /\ State(t) = "failed"

\* The events published for t so far, oldest first: those the stream has
\* delivered, then those still queued; of each its type and its final flag.
Brief(e) == [event_type |-> e.event_type, final |-> e.final]

Published(t) ==
    [i \in 1..Len(delivered[t]) |-> Brief(delivered[t][i])]
        \o [i \in 1..Len(queue[t]) |-> Brief(queue[t][i])]

\* C26: an attempt whose code is generated and whose execution is a success
\* ends the task as completed on that attempt, with an artifact appended to
\* the task; on a stream the artifact event precedes the final status event.
C26_CleanRunCompletesWithArtifact ==
    \A t \in TaskIds :
        (/\ agent[t].attempts # << >>
         /\ Last(agent[t].attempts) = "clean"
         /\ Done(t)
         /\ ~cancel_marked[t])
        => /\ State(t) = "completed"
           /\ task_store[t].artifacts >= 1
           /\ sink[t] =>
                \E i, j \in 1..Len(Published(t)) :
                    /\ i < j
                    /\ Published(t)[i].event_type = "task_artifact_update"
                    /\ Published(t)[j].final

\* C27: the events of a task reach the stream consumer in the order they were
\* put, each once: the queue only grows at its tail and only loses its head,
\* and every event taken from it, the end-of-stream None apart, is the next
\* one delivered, whole.
C27_DeliveredInPutOrder ==
    [][\A t \in TaskIds :
          /\ delivered[t]' # delivered[t] =>
                /\ queue[t] # << >>
                /\ delivered[t]' = Append(delivered[t], Rendered(t, Head(queue[t])))
                /\ queue[t]' = Tail(queue[t])
          /\ queue[t]' # queue[t] =>
                \/ /\ queue[t] # << >>
                   /\ queue[t]' = Tail(queue[t])
                   /\ \/ Head(queue[t]) = EndOfStream /\ delivered[t]' = delivered[t]
                      \/ delivered[t]' = Append(delivered[t], Rendered(t, Head(queue[t])))
                \/ /\ Len(queue[t]') > Len(queue[t])
                   /\ SubSeq(queue[t]', 1, Len(queue[t])) = queue[t]
                   /\ delivered[t]' = delivered[t]]_vars

C27_Witness ==
    /\ Len(delivered["t1"]) >= 4
    /\ queue["t1"] # << >>
    /\ \E i \in 1..Len(delivered["t1"]) :
          delivered["t1"][i].event_type = "task_progress_update"

\* C28: at most one event with final = true is ever published for a task and
\* no event is published after it (the None that ends the stream is not an
\* event), however the background run and tasks/cancel interleave.
C28_OneFinalEventAndNothingAfter ==
    \A t \in TaskIds :
        \A i, j \in 1..Len(Published(t)) :
            (i < j /\ Published(t)[i].final) => Published(t)[j].event_type = "None"

\* C29: the stream of a task ends with the first event it delivers that
\* carries final = true: nothing is delivered after a final event, the stream
\* is over once one is delivered, and it is never over after an event that is
\* not final.
C29_StreamEndsOnFirstFinalEvent ==
    \A t \in TaskIds :
        /\ \A i \in 1..Len(delivered[t]) : delivered[t][i].final => i = Len(delivered[t])
        /\ (delivered[t] # << >> /\ Last(delivered[t]).final) => stream[t] = "closed"
        /\ stream[t] = "closed" => (delivered[t] # << >> /\ Last(delivered[t]).final)

C29_Witness ==
    /\ stream["t1"] = "closed"
    /\ Len(delivered["t1"]) >= 2
    /\ Last(delivered["t1"]).final
    /\ \E i \in 1..Len(queue["t1"]) : queue["t1"][i] # EndOfStream

\* C30: a put never makes the background thread of a task wait for the stream
\* consumer: the thread always has a next step until it is done, and it ends
\* with the task in a terminal status even when the consumer has read nothing.
C30_RunEndsTerminalWithoutConsumer ==
    \A t \in TaskIds :
        /\ (sink[t] /\ pc[t] \notin {"idle", "done"}) => ENABLED ThreadStep(t)
        /\ (sink[t] /\ delivered[t] = << >> /\ Done(t) /\ ~cancel_marked[t])
              => State(t) \in TerminalStates

\* The thread of t has replaced the task's status by one in another state and
\* has still to put the event that carries it.
AwaitsStatusEvent(t) ==
    /\ pc[t] \in {"a2a_fail_put", "a2a_submitted_put", "a2a_status_put"}
    /\ task_store[t].status > 1
    /\ heap[t][task_store[t].status - 1].state # heap[t][task_store[t].status].state

\* C31: on a streaming task every change of the status state, by the thread
\* or by a tasks/cancel that finds the queue registered, is followed by a
\* status event carrying the new state before the state changes again: the
\* step that changes the state puts the event or leaves the thread about to
\* put it, and the state does not change while that event is awaited.
C31_StatusChangeIsPublished ==
    [][\A t \in TaskIds :
          (sink[t] /\ State(t) # "absent") =>
              /\ (State(t)' # State(t) /\ (cancel_calls[t]' # cancel_calls[t] => stream_queues[t]))
                    => \/ \E i \in (Len(queue[t]) + 1)..Len(queue[t]') :
                             /\ queue[t]'[i].status # 0
                             /\ heap[t]'[queue[t]'[i].status].state = State(t)'
                       \/ AwaitsStatusEvent(t)'
              /\ AwaitsStatusEvent(t) => State(t)' = State(t)]_vars

\* The i-th queued event of t will be delivered if the consumer keeps reading:
\* the stream is open and no event before it ends the stream.
WillBeDelivered(t, i) ==
    /\ stream[t] = "open"
    /\ \A j \in 1..(i - 1) : ~EndsStream(queue[t][j]) /\ queue[t][j] # EndOfStream
    /\ queue[t][i] # EndOfStream

\* C32: a published event is immutable: while it waits on the queue, what the
\* consumer will receive for it (status state, timestamp and message) does not
\* change, whatever happens to the task's status in between.
C32_PublishedEventIsImmutable ==
    [][\A t \in TaskIds :
          \A i \in 1..Len(queue[t]) :
              WillBeDelivered(t, i) =>
                  \A e \in {queue[t][i]} : Rendered(t, e)' = Rendered(t, e)]_vars

\* C33: every execute_code call gets an environment directory of its own,
\* created by that call: the directory a call starts to use did not exist
\* before (no earlier call left it) and no other call is using it.
C33_EnvironmentIsFresh ==
    [][\A t \in TaskIds :
          (venv_dir[t]' # venv_dir[t] /\ venv_dir[t]' # "None") =>
              /\ venv_dir[t]' \notin temp_env
              /\ \A u \in TaskIds \ {t} : venv_dir[u]' # venv_dir[t]']_vars

C33_Witness ==
    /\ venv_dir["t1"] # "None"
    /\ venv_dir["t2"] # "None"
    /\ agent["t1"].exec_calls >= 2
    /\ temp_env \ {venv_dir["t1"], venv_dir["t2"]} # {}

\* The call ran its program and the program outlived the timeout.
TimedOut(c) ==
    /\ strip(c.code_string) # << >>
    /\ ~c.raises
    /\ c.install_ok
    /\ c.overtime

\* C34: when the program runs longer than the timeout, execute_code returns
\* with no child of the call still running and with a failed result that
\* names the timeout: success false, exit code -1, "timed out" in the error.
C34_TimeoutKillsChildAndFails ==
    \A c \in call_in :
        (call_out # {} /\ TimedOut(c)) =>
            /\ children = {}
            /\ \A r \in call_out :
                  /\ ~r.success
                  /\ r.exit_code = -1
                  /\ Contains(r.error, <<"timed out">>)

C34_Witness ==
    /\ call_out # {}
    /\ children = {}
    /\ \E c \in call_in : TimedOut(c) /\ c.exit_code = 0 /\ c.stdout # << >>

\* C35: a keep-alive, sent when the open stream finds no event within the
\* polling window, leaves the stream open and its queue registered, and
\* neither takes an event from the queue nor delivers one.
C35_KeepAliveOnlyKeepsAlive ==
    [][\A t \in TaskIds :
          keep_alives[t]' # keep_alives[t] =>
              /\ stream[t] = "open" /\ queue[t] = << >>
              /\ stream[t]' = "open"
              /\ stream_queues[t]'
              /\ queue[t]' = queue[t]
              /\ delivered[t]' = delivered[t]]_vars

C35_Witness ==
    /\ keep_alives["t1"] > 0
    /\ delivered["t1"] # << >>
    /\ stream["t1"] = "closed"

C38_SentinelFollowsEveryRun ==
    \A t \in TaskIds :
        (sink[t] /\ Done(t)) =>
            /\ stream[t] = "closed" \/ \E i \in 1..Len(queue[t]) : queue[t][i] = EndOfStream
            /\ stream[t] = "open" =>
                  \E i \in 1..Len(queue[t]) :
                      queue[t][i] = EndOfStream \/ EndsStream(queue[t][i])

C38_Witness ==
    /\ sink["t1"]
    /\ Done("t1")
    /\ stream["t1"] = "open"
    /\ agent["t1"].raised
    /\ delivered["t1"] # << >>

\* The requests for id t that were accepted.
Accepted(t) == {c \in Clients : handler[c].at \in {"pending", "stream"}}

\* C39: task ids are unique in task_store: of the send requests with one id
\* at most one is accepted and at most one background thread is started for
\* the id; a request that finds the id stored is answered 409 and changes
\* nothing.
C39_OneTaskAndOneRunPerId ==
    /\ Cardinality(Accepted("t1")) <= 1
    /\ threads_started["t1"] <= 1

====
